---- MODULE Spec2Model ----
(***************************************************************************)
(* Face-recognition API: the embedding index (models/vector_store.py) and  *)
(* the person service that keeps it in step with the Person table          *)
(* (services/person_service.py).                                           *)
(*                                                                         *)
(* The ChromaDB collection is modelled as a set of records; every call the *)
(* code makes on it (add, get, query, delete) is an operator that yields   *)
(* the set of outcomes the engine can produce, including a raised storage  *)
(* error.  Similarities are integers in hundredths (100 = 1.0).            *)
(***************************************************************************)
EXTENDS Integers, Sequences, FiniteSets, TLC

\* ------------------------------------------------------------------ bounds
NumKeys == 2

Keys == 1..NumKeys

\* Embeddings: 2-dimensional integer vectors of norm 10 (cosine 0.6 apart),
\* and the zero vector that extract_embedding passes through unnormalised.
Vecs == { <<10, 0>>, <<6, 8>>, <<0, 0>> }

\* A stored embedding that reads back as None (vector_store.py:58).
NullEmb == << >>

\* Embeddings that are not valid: the empty one, one of another dimension
\* and one with a non-finite component (99 stands for NaN).  add_embedding
\* passes whatever it is given on to the collection.
EmptyVec == << >>
WrongDim == << 10 >>
NonFinite == << 99, 0 >>
InvalidVecs == { EmptyVec, WrongDim, NonFinite }

\* Metadata is reduced to its "person_id" entry; NoPid = no such entry.
NoPid == 0
\* The metadata create_person builds for key k (person_service.py:67-73).
MetaOf(k) == k

\* Rounding of the engine's float32 distance: exact, or one unit too large.
FpErrs == { 0, 1 }

DefaultThreshold == 70
Thresholds == { 0, DefaultThreshold, 100 }
DefaultLimit == 5
Limits == { 1, DefaultLimit }

VARIABLES
    coll,    \* the ChromaDB collection: a set of [id, emb, meta] records
    db,      \* the Person table: a set of [id, vector_id] rows
    fpErr,   \* rounding error of the engine's float32 distance, in 1/100
    hist,    \* per key: what the last call that changed its record returned
    last,    \* the most recent call: its arguments and what it returned
    running  \* the calls in progress at once, per caller; << >> when none is

vars == << coll, db, fpErr, hist, last, running >>

\* ------------------------------------------------------------ pure helpers
Min(a, b) == IF a <= b THEN a ELSE b

Range(s) == { s[i] : i \in 1..Len(s) }

Ids(c) == { r.id : r \in c }

Dot(u, v) == u[1] * v[1] + u[2] * v[2]

Norm(v) == CHOOSE n \in 0..10 : n * n = Dot(v, v)

\* Cosine similarity in hundredths; a zero vector has similarity 0 to
\* everything (the engine normalises with 1/(norm + 1e-30)).
CosSim(u, v) ==
    IF Norm(u) = 0 \/ Norm(v) = 0 THEN 0
    ELSE (100 * Dot(u, v)) \div (Norm(u) * Norm(v))

\* The cosine distance the engine reports.
Distance(u, v, e) == 100 - CosSim(u, v) + e


\* ------------------------------------------------- the ChromaDB collection
\* Each operator is the set of outcomes of one engine call made by the code:
\* [raised |-> TRUE] is an exception out of the call (storage unchanged).

\* The engine's own validation of an embedding handed to add: it raises on an
\* empty one, and on one whose dimension is not the collection's.  The
\* collection is created without a dimension (get_or_create_collection is
\* given the distance only) and takes that of the embeddings it stores; the
\* values themselves are only checked to be numbers, which NaN is.
EngineRejects(c, v) ==
    \/ v = EmptyVec
    \/ \E r \in c : r.emb # NullEmb /\ Len(r.emb) # Len(v)

\* CollectionAdd without the engine's skip of an id it already holds.
CollectionAdd_Blind(c, k, v, m) ==
    { [raised |-> TRUE, coll |-> c] } \cup
    { [raised |-> FALSE,
       coll |-> c \cup { [id |-> k, emb |-> e, meta |-> m] }]
      : e \in { v, NullEmb } }

\* self.collection.add(ids=[k], embeddings=[v], metadatas=[m]).  An id the
\* collection already holds is skipped without an exception; a new id is
\* stored, possibly with an embedding that reads back as None.
CollectionAdd(c, k, v, m) ==
    { [raised |-> TRUE, coll |-> c] } \cup
    ( IF EngineRejects(c, v)
      THEN {}
      ELSE IF k \in Ids(c)
      THEN { [raised |-> FALSE, coll |-> c] }
      ELSE { [raised |-> FALSE,
              coll |-> c \cup { [id |-> k, emb |-> e, meta |-> m] }]
             : e \in { v, NullEmb } } )

\* self.collection.get(ids=[k], include=["embeddings"]): the embeddings of
\* the records with that id, as a list.
CollectionGet(c, k) ==
    { [raised |-> TRUE, embeddings |-> << >>] } \cup
    { [raised |-> FALSE, embeddings |-> s] :
        s \in { t \in [1..Cardinality({ r \in c : r.id = k }) -> { r.emb : r \in c }] :
                  /\ \A i \in DOMAIN t : \E r \in c : r.id = k /\ r.emb = t[i]
                  /\ \A r \in c : r.id = k => \E i \in DOMAIN t : t[i] = r.emb } }

\* self.collection.delete(ids=[k]): an absent id is not an error.
CollectionDelete(c, k) ==
    { [raised |-> TRUE, coll |-> c],
      [raised |-> FALSE, coll |-> { r \in c : r.id # k }] }

\* self.collection.query(query_embeddings=[p], n_results=limit, ...): the
\* `limit` nearest records by ascending cosine distance; the order among
\* equal distances is the engine's choice.
CollectionQuery(c, p, limit, e) ==
    LET Rows == { [id |-> r.id, distance |-> Distance(r.emb, p, e), metadata |-> r.meta]
                  : r \in { q \in c : q.emb # NullEmb } }
        n == Min(limit, Cardinality(Rows))
        Ranked == { s \in [1..n -> Rows] :
                      /\ \A i, j \in 1..n :
                           i < j => s[i] # s[j] /\ s[i].distance <= s[j].distance
                      /\ \A r \in Rows \ Range(s) :
                           \A i \in 1..n : s[i].distance <= r.distance }
    IN  { [raised |-> TRUE, rows |-> << >>] } \cup
        { [raised |-> FALSE, rows |-> s] : s \in Ranked }

\* ----------------------------------------------- messages and log lines
MsgNoFace   == "Aucun visage détecté dans l'image"
MsgNoMatch  == "Aucune correspondance trouvée"
MsgNotInDb  == "Personne non trouvée dans la base de données"
MsgDbError  == "Erreur de base de données"
MsgInternal == "Erreur interne"

LogNoResult    == "warning: Aucun résultat trouvé"
LogSearchError == "error: Erreur lors de la recherche d'embeddings"
LogDrift       == "warning: Aucune personne trouvée dans la base de données malgré des correspondances dans ChromaDB"
LogDbError     == "error: Erreur de base de données lors de la recherche de la personne"
LogFindError   == "error: Erreur lors de la recherche de la personne"

\* ------------------------------------------------------------ VectorStore
\* Each operator is the set of outcomes of one method call: the value it
\* returns, the collection it leaves, and whether the engine stored a record
\* (stored) or took one out (deleted) on the way.

\* The read-back with no except branch behind it.
ReadBack_Unguarded(g) ==
    IF g.raised \/ g.embeddings = << >> THEN "crash"
    ELSE IF g.embeddings[1] = NullEmb THEN "false"
    ELSE "true"

\* What add_embedding returns after the collection.get outcome g: the get
\* raising, or check['embeddings'][0] raising on an empty list, ends in the
\* except branch (False); a None embedding gives False; else True.
ReadBack(g) ==
    IF g.raised \/ g.embeddings = << >> THEN "false"
    ELSE IF g.embeddings[1] = NullEmb THEN "false"
    ELSE "true"

\* add_embedding without the read-back of the stored embedding.
add_embedding_Unverified(c, k, v, m) ==
    { [ret |-> ~a.raised, coll |-> a.coll, stored |-> a.coll # c]
      : a \in CollectionAdd(c, k, v, m) }

\* The read-back (collection.get) raises, or check['embeddings'][0] fails on
\* an empty list: the except branch returns False.
add_embedding(c, k, v, m) ==
    UNION { IF a.raised
            THEN { [ret |-> FALSE, coll |-> c, stored |-> FALSE] }
            ELSE { [ret |-> (ReadBack(g) = "true"),
                    coll |-> a.coll,
                    stored |-> a.coll # c] : g \in CollectionGet(a.coll, k) }
            : a \in CollectionAdd(c, k, v, m) }

\* delete_embedding returning True from its except branch as well.
delete_embedding_AlwaysTrue(c, k) ==
    { [ret |-> TRUE, coll |-> d.coll] : d \in CollectionDelete(c, k) }

delete_embedding(c, k) ==
    { [ret |-> ~d.raised, coll |-> d.coll] : d \in CollectionDelete(c, k) }

update_embedding(c, k, v, m) ==
    UNION { { [ret |-> a.ret, coll |-> a.coll, stored |-> a.stored, deleted |-> d.ret]
              : a \in add_embedding(d.coll, k, v, m) }
            : d \in delete_embedding(c, k) }

\* The filter loop with a strict comparison against the threshold.
FilterMatches_Strict(rows, threshold) ==
    SelectSeq([i \in 1..Len(rows) |->
                  [id |-> rows[i].id,
                   similarity |-> 100 - rows[i].distance,
                   metadata |-> rows[i].metadata]],
              LAMBDA x : x.similarity > threshold)

\* The filter loop keeping every row, whatever its similarity.
FilterMatches_NoCut(rows, threshold) ==
    [i \in 1..Len(rows) |->
        [id |-> rows[i].id,
         similarity |-> 100 - rows[i].distance,
         metadata |-> rows[i].metadata]]

\* The filter loop keeping the rows at or below the threshold.
FilterMatches_Inverted(rows, threshold) ==
    SelectSeq([i \in 1..Len(rows) |->
                  [id |-> rows[i].id,
                   similarity |-> 100 - rows[i].distance,
                   metadata |-> rows[i].metadata]],
              LAMBDA x : x.similarity <= threshold)

\* The filter loop putting each match in front of the earlier ones.
FilterMatches_Reversed(rows, threshold) ==
    LET kept == SelectSeq([i \in 1..Len(rows) |->
                              [id |-> rows[i].id,
                               similarity |-> 100 - rows[i].distance,
                               metadata |-> rows[i].metadata]],
                          LAMBDA x : x.similarity >= threshold)
    IN  [i \in 1..Len(kept) |-> kept[Len(kept) + 1 - i]]

\* The filter loop of search_similar over the rows of one query result.
FilterMatches(rows, threshold) ==
    SelectSeq([i \in 1..Len(rows) |->
                  [id |-> rows[i].id,
                   similarity |-> 100 - rows[i].distance,
                   metadata |-> rows[i].metadata]],
              LAMBDA x : x.similarity >= threshold)

\* The set of [raised, rows, ret, log] outcomes; rows is what the engine
\* answered, ret the list of matches, log the warning or error the call wrote.
search_similar(c, p, threshold, limit, e) ==
    { [raised |-> q.raised,
       rows |-> q.rows,
       ret |-> IF q.raised \/ q.rows = << >> THEN << >>
               ELSE FilterMatches(q.rows, threshold),
       log |-> IF q.raised THEN { LogSearchError }
               ELSE IF q.rows = << >> THEN { LogNoResult }
               ELSE {}]
      : q \in CollectionQuery(c, p, limit, e) }

\* ---------------------------------------------------------------- history
\* hist[k] after a call on key k:
\*   "acked"   the record now held for k was stored by a call that returned True
\*   "deleted" delete_embedding(k) returned True and nothing was stored since
\*   "none"    otherwise (never touched, or stored by a call that returned False)
HistAfter(h, k, stored, ret, deleted) ==
    [h EXCEPT ![k] = IF stored THEN (IF ret THEN "acked" ELSE "none")
                     ELSE IF deleted THEN "deleted"
                     ELSE @]

Init ==
    /\ coll = {}
    /\ db = {}
    /\ fpErr \in FpErrs
    /\ hist = [k \in Keys |-> "none"]
    /\ last = [op |-> "idle"]
    /\ running = << >>

\* One caller issues the calls one after the other: a call leaves what it
\* returned in `last`, and Return is the caller taking that value before the
\* next call.
Idle == last.op = "idle"

Return ==
    /\ ~Idle
    /\ last' = [op |-> "idle"]
    /\ UNCHANGED << coll, db, fpErr, hist, running >>

\* ------------------------------------------- calls on the VectorStore API
AddEmbedding ==
    /\ Idle
    /\ \E k \in Keys, v \in Vecs :
         \E o \in add_embedding(coll, k, v, MetaOf(k)) :
           /\ coll' = o.coll
           /\ hist' = HistAfter(hist, k, o.stored, o.ret, FALSE)
           /\ last' = [op |-> "add", key |-> k, emb |-> v,
                       existed |-> k \in Ids(coll), ret |-> o.ret]
           /\ UNCHANGED << db, fpErr, running >>

DeleteEmbedding ==
    /\ Idle
    /\ \E k \in Keys :
         \E o \in delete_embedding(coll, k) :
           /\ coll' = o.coll
           /\ hist' = HistAfter(hist, k, FALSE, o.ret, o.ret)
           /\ last' = [op |-> "delete", key |-> k,
                       existed |-> k \in Ids(coll), ret |-> o.ret]
           /\ UNCHANGED << db, fpErr, running >>

UpdateEmbedding ==
    /\ Idle
    /\ \E k \in Keys, v \in Vecs :
         \E o \in update_embedding(coll, k, v, MetaOf(k)) :
           /\ coll' = o.coll
           /\ hist' = HistAfter(hist, k, o.stored, o.ret, o.deleted)
           /\ last' = [op |-> "update", key |-> k, emb |-> v,
                       existed |-> k \in Ids(coll), deleted |-> o.deleted,
                       ret |-> o.ret]
           /\ UNCHANGED << db, fpErr, running >>

SearchSimilar ==
    /\ Idle
    /\ \E p \in Vecs, t \in Thresholds, n \in Limits :
         \E o \in search_similar(coll, p, t, n, fpErr) :
           /\ last' = [op |-> "search", probe |-> p, threshold |-> t,
                       limit |-> n, raised |-> o.raised, rows |-> o.rows,
                       ret |-> o.ret]
           /\ UNCHANGED << coll, db, fpErr, hist, running >>

\* add_embedding called with an embedding that is not valid.
AddInvalidEmbedding ==
    /\ Idle
    /\ \E k \in Keys, v \in InvalidVecs :
         \E o \in add_embedding(coll, k, v, MetaOf(k)) :
           /\ coll' = o.coll
           /\ hist' = HistAfter(hist, k, o.stored, o.ret, FALSE)
           /\ last' = [op |-> "add", key |-> k, emb |-> v,
                       existed |-> k \in Ids(coll), ret |-> o.ret]
           /\ UNCHANGED << db, fpErr, running >>

NextStore ==
    \/ AddEmbedding
    \/ DeleteEmbedding
    \/ UpdateEmbedding
    \/ SearchSimilar
    \/ Return

SpecStore == Init /\ [][NextStore]_vars

\* The index fed with valid and invalid embeddings.
NextInvalid ==
    \/ AddEmbedding
    \/ AddInvalidEmbedding
    \/ DeleteEmbedding
    \/ Return

SpecInvalid == Init /\ [][NextInvalid]_vars

\* ---------------------------------------------------------- Person table
\* Person.query.filter_by(id=x).first() and filter_by(vector_id=x).first():
\* the set holding the matching row, or the empty set (both columns are
\* unique).
ById(d, x) == { p \in d : p.id = x }

ByVectorId(d, x) == { p \in d : p.vector_id = x }

\* ------------------------------------------------- exceptions and files
\* The except clauses that close create_person, find_person_by_face and
\* delete_person, in order; `Exception` takes every class.
ExceptClauses == << "SQLAlchemyError", "Exception" >>

IsInstance(exc, cls) == cls = "Exception" \/ exc = cls

\* The methods with their first except clause only.
Caught_DbOnly(exc) == IsInstance(exc, ExceptClauses[1])

\* Whether an exception raised in the try block is taken by a clause.
Caught(exc) == \E i \in DOMAIN ExceptClauses : IsInstance(exc, ExceptClauses[i])

\* The class of the exception behind each fault: the database raises
\* SQLAlchemyError, a file operation OSError.
ExcOf(fault) == IF fault \in { "commit", "query" } THEN "SQLAlchemyError" ELSE "OSError"

\* A clean-up that leaves the file where it is.
RemoveIfExists_Skip(exists) == exists

\* if os.path.exists(path): os.remove(path) -- whether the file exists
\* afterwards.
RemoveIfExists(exists) == IF exists THEN FALSE ELSE exists

\* The fingerprint files of create_person, in the order it saves them.
FingerprintOrder == << "right", "left", "thumbs" >>

\* The fingerprint files among fps saved before the one at position j.
SavedBefore(fps, j) == { FingerprintOrder[i] : i \in 1..(j - 1) } \cap fps

\* ---------------------------------------------------------- PersonService
\* create_person for the generated id k.  `face` is whether the extractor
\* finds a face, v the embedding it then returns, fps the fingerprint files
\* given, and `fault` the external step that raises, if any: "save" (the
\* photo), "fingerprint" (a fingerprint file) or "commit" (the database).  The
\* outcome names the stage the call ended in; ret is whether a Person was
\* returned rather than None, files the files the call wrote that exist when
\* it returns, escaped whether an exception left the method.
create_person(c, d, k, face, v, fps, fault) ==
    LET Photo(exists) == IF RemoveIfExists(exists) THEN { "photo" } ELSE {}
    IN
    IF fault = "save"
    THEN { [ret |-> FALSE, stage |-> "save", coll |-> c, db |-> d,
            stored |-> FALSE, addret |-> FALSE,
            files |-> Photo(e), escaped |-> ~Caught(ExcOf(fault))] : e \in BOOLEAN }
    ELSE IF ~face
    THEN { [ret |-> FALSE, stage |-> "noface", coll |-> c, db |-> d,
            stored |-> FALSE, addret |-> FALSE,
            files |-> Photo(TRUE), escaped |-> FALSE] }
    ELSE UNION {
           IF ~a.ret
           THEN { [ret |-> FALSE, stage |-> "add", coll |-> a.coll, db |-> d,
                   stored |-> a.stored, addret |-> FALSE,
                   files |-> Photo(TRUE), escaped |-> FALSE] }
           ELSE IF fault = "fingerprint"
           THEN { [ret |-> FALSE, stage |-> "fingerprint", coll |-> a.coll, db |-> d,
                   stored |-> a.stored, addret |-> TRUE,
                   files |-> Photo(TRUE) \cup SavedBefore(fps, j),
                   escaped |-> ~Caught(ExcOf(fault))]
                  : j \in { i \in DOMAIN FingerprintOrder : FingerprintOrder[i] \in fps } }
           ELSE IF fault = "commit"
           THEN { [ret |-> FALSE, stage |-> "commit", coll |-> a.coll, db |-> d,
                   stored |-> a.stored, addret |-> TRUE,
                   files |-> Photo(TRUE) \cup fps,
                   escaped |-> ~Caught(ExcOf(fault))] }
           ELSE { [ret |-> TRUE, stage |-> "done", coll |-> a.coll,
                   db |-> d \cup { [id |-> k, vector_id |-> k] },
                   stored |-> a.stored, addret |-> TRUE,
                   files |-> { "photo" } \cup fps, escaped |-> FALSE] }
           : a \in add_embedding(c, k, v, MetaOf(k)) }

\* delete_person(x).  `fault` is the external step that raises, if any:
\* "query" (the lookup), "remove" (a file) or "commit" (the database).
\* called/delret: whether delete_embedding was called and what it returned;
\* escaped: whether an exception left the method.
delete_person(c, d, x, fault) ==
    IF fault = "query"
    THEN { [ret |-> FALSE, stage |-> "query", coll |-> c, db |-> d,
            called |-> FALSE, delret |-> FALSE, vid |-> x,
            escaped |-> ~Caught(ExcOf(fault))] }
    ELSE IF ById(d, x) = {}
    THEN { [ret |-> FALSE, stage |-> "notfound", coll |-> c, db |-> d,
            called |-> FALSE, delret |-> FALSE, vid |-> x, escaped |-> FALSE] }
    ELSE LET person == CHOOSE p \in ById(d, x) : TRUE
         IN  { IF fault = "remove"
               THEN [ret |-> FALSE, stage |-> "remove", coll |-> e.coll, db |-> d,
                     called |-> TRUE, delret |-> e.ret, vid |-> person.vector_id,
                     escaped |-> ~Caught(ExcOf(fault))]
               ELSE IF fault = "commit"
               THEN [ret |-> FALSE, stage |-> "commit", coll |-> e.coll, db |-> d,
                     called |-> TRUE, delret |-> e.ret, vid |-> person.vector_id,
                     escaped |-> ~Caught(ExcOf(fault))]
               ELSE [ret |-> TRUE, stage |-> "done", coll |-> e.coll,
                     db |-> d \ { person },
                     called |-> TRUE, delret |-> e.ret, vid |-> person.vector_id,
                     escaped |-> FALSE]
               : e \in delete_embedding(c, person.vector_id) }

\* The candidate loop trying the vector_id lookup before the id lookup.
RECURSIVE ResolveFrom_VectorIdFirst(_, _, _, _)
ResolveFrom_VectorIdFirst(matches, i, d, budget) ==
    IF i > Len(matches)
    THEN [found |-> FALSE, message |-> MsgNotInDb, log |-> { LogDrift }]
    ELSE
      LET m == matches[i]
          Found(p) == [found |-> TRUE, person |-> p.id, similarity |-> m.similarity,
                       log |-> {}]
          DbError == [found |-> FALSE, message |-> MsgDbError, log |-> { LogDbError }]
      IN  IF budget = 0 THEN DbError
          ELSE IF ByVectorId(d, m.id) # {}
          THEN Found(CHOOSE p \in ByVectorId(d, m.id) : TRUE)
          ELSE IF budget = 1 THEN DbError
          ELSE IF ById(d, m.id) # {}
          THEN Found(CHOOSE p \in ById(d, m.id) : TRUE)
          ELSE IF m.metadata = NoPid
          THEN ResolveFrom_VectorIdFirst(matches, i + 1, d, budget - 2)
          ELSE IF budget = 2 THEN DbError
          ELSE IF ById(d, m.metadata) # {}
          THEN Found(CHOOSE p \in ById(d, m.metadata) : TRUE)
          ELSE ResolveFrom_VectorIdFirst(matches, i + 1, d, budget - 3)

\* The candidate loop ending, when no candidate resolves, with the message of
\* an empty search and no warning.
RECURSIVE ResolveFrom_SilentDrift(_, _, _, _)
ResolveFrom_SilentDrift(matches, i, d, budget) ==
    IF i > Len(matches)
    THEN [found |-> FALSE, message |-> MsgNoMatch, log |-> {}]
    ELSE
      LET m == matches[i]
          Found(p) == [found |-> TRUE, person |-> p.id, similarity |-> m.similarity,
                       log |-> {}]
          DbError == [found |-> FALSE, message |-> MsgDbError, log |-> { LogDbError }]
      IN  IF budget = 0 THEN DbError
          ELSE IF ById(d, m.id) # {}
          THEN Found(CHOOSE p \in ById(d, m.id) : TRUE)
          ELSE IF budget = 1 THEN DbError
          ELSE IF ByVectorId(d, m.id) # {}
          THEN Found(CHOOSE p \in ByVectorId(d, m.id) : TRUE)
          ELSE IF m.metadata = NoPid
          THEN ResolveFrom_SilentDrift(matches, i + 1, d, budget - 2)
          ELSE IF budget = 2 THEN DbError
          ELSE IF ById(d, m.metadata) # {}
          THEN Found(CHOOSE p \in ById(d, m.metadata) : TRUE)
          ELSE ResolveFrom_SilentDrift(matches, i + 1, d, budget - 3)

\* The candidate loop of find_person_by_face from candidate i on.  `budget`
\* is the number of Person queries that answer before the database raises.
RECURSIVE ResolveFrom(_, _, _, _)
ResolveFrom(matches, i, d, budget) ==
    IF i > Len(matches)
    THEN [found |-> FALSE, message |-> MsgNotInDb, log |-> { LogDrift }]
    ELSE
      LET m == matches[i]
          Found(p) == [found |-> TRUE, person |-> p.id, similarity |-> m.similarity,
                       log |-> {}]
          DbError == [found |-> FALSE, message |-> MsgDbError, log |-> { LogDbError }]
      IN  IF budget = 0 THEN DbError
          ELSE IF ById(d, m.id) # {}
          THEN Found(CHOOSE p \in ById(d, m.id) : TRUE)
          ELSE IF budget = 1 THEN DbError
          ELSE IF ByVectorId(d, m.id) # {}
          THEN Found(CHOOSE p \in ByVectorId(d, m.id) : TRUE)
          ELSE IF m.metadata = NoPid
          THEN ResolveFrom(matches, i + 1, d, budget - 2)
          ELSE IF budget = 2 THEN DbError
          ELSE IF ById(d, m.metadata) # {}
          THEN Found(CHOOSE p \in ById(d, m.metadata) : TRUE)
          ELSE ResolveFrom(matches, i + 1, d, budget - 3)

\* find_person_by_face going into the candidate loop with an empty list.
find_person_by_face_NoEmptyCheck(c, d, face, v, threshold, fault, budget, e) ==
    IF fault = "save"
    THEN { [found |-> FALSE, message |-> MsgInternal, log |-> { LogFindError },
            matches |-> << >>, temp |-> RemoveIfExists(x),
            escaped |-> ~Caught(ExcOf(fault))] : x \in BOOLEAN }
    ELSE IF ~face
    THEN { [found |-> FALSE, message |-> MsgNoFace, log |-> {}, matches |-> << >>,
            temp |-> RemoveIfExists(TRUE), escaped |-> FALSE] }
    ELSE { LET r == ResolveFrom(s.ret, 1, d, budget)
           IN  IF r.found
               THEN [found |-> TRUE, person |-> r.person,
                     similarity |-> r.similarity,
                     log |-> s.log \cup r.log, matches |-> s.ret,
                     temp |-> RemoveIfExists(TRUE), escaped |-> FALSE]
               ELSE [found |-> FALSE, message |-> r.message,
                     log |-> s.log \cup r.log, matches |-> s.ret,
                     temp |-> RemoveIfExists(TRUE), escaped |-> FALSE]
           : s \in search_similar(c, v, threshold, DefaultLimit, e) }

\* find_person_by_face: the set of results.  `fault` = "save" is the temporary
\* file failing to be written.  Beside the fields of the dict it returns, a
\* result carries the log lines written, the candidates the index gave,
\* whether the temporary file exists at the return (temp) and whether an
\* exception left the method (escaped).
find_person_by_face(c, d, face, v, threshold, fault, budget, e) ==
    IF fault = "save"
    THEN { [found |-> FALSE, message |-> MsgInternal, log |-> { LogFindError },
            matches |-> << >>, temp |-> RemoveIfExists(x),
            escaped |-> ~Caught(ExcOf(fault))] : x \in BOOLEAN }
    ELSE IF ~face
    THEN { [found |-> FALSE, message |-> MsgNoFace, log |-> {}, matches |-> << >>,
            temp |-> RemoveIfExists(TRUE), escaped |-> FALSE] }
    ELSE { IF s.ret = << >>
           THEN [found |-> FALSE, message |-> MsgNoMatch, log |-> s.log,
                 matches |-> s.ret, temp |-> RemoveIfExists(TRUE), escaped |-> FALSE]
           ELSE LET r == ResolveFrom(s.ret, 1, d, budget)
                IN  IF r.found
                    THEN [found |-> TRUE, person |-> r.person,
                          similarity |-> r.similarity,
                          log |-> s.log \cup r.log, matches |-> s.ret,
                          temp |-> RemoveIfExists(TRUE), escaped |-> FALSE]
                    ELSE [found |-> FALSE, message |-> r.message,
                          log |-> s.log \cup r.log, matches |-> s.ret,
                          temp |-> RemoveIfExists(TRUE),
                          escaped |-> ( /\ r.message = MsgDbError
                                        /\ ~Caught("SQLAlchemyError") )]
           : s \in search_similar(c, v, threshold, DefaultLimit, e) }

\* --------------------------------------------- calls on the PersonService
\* What extract_embedding makes of the uploaded image: no face, or the
\* normalised embedding of the best face.
FaceVecs == Vecs \ { << 0, 0 >> }
Faces == { [face |-> FALSE, v |-> << 0, 0 >>] } \cup { [face |-> TRUE, v |-> v] : v \in FaceVecs }

\* The thresholds the /identify route passes on.
FindThresholds == { 0, DefaultThreshold }

\* uuid.uuid4(): an id no record of either store carries.
Fresh(k) == k \notin Ids(coll) /\ ById(db, k) = {} /\ ByVectorId(db, k) = {}

\* The fingerprint files a request carries: none, or all three.
FingerprintInputs == { {}, Range(FingerprintOrder) }

CreatePerson ==
    /\ Idle
    /\ \E k \in Keys, f \in Faces, fps \in FingerprintInputs,
          fault \in { "none", "save", "fingerprint", "commit" } :
         /\ Fresh(k)
         /\ fault = "fingerprint" => fps # {}
         /\ \E o \in create_person(coll, db, k, f.face, f.v, fps, fault) :
              /\ coll' = o.coll
              /\ db' = o.db
              /\ hist' = HistAfter(hist, k, o.stored, o.addret, FALSE)
              /\ last' = [op |-> "create", key |-> k, ret |-> o.ret, stage |-> o.stage,
                          files |-> o.files, escaped |-> o.escaped]
              /\ UNCHANGED << fpErr, running >>

DeletePerson ==
    /\ Idle
    /\ \E x \in Keys, fault \in { "none", "query", "remove", "commit" } :
         \E o \in delete_person(coll, db, x, fault) :
           /\ coll' = o.coll
           /\ db' = o.db
           /\ hist' = HistAfter(hist, o.vid, FALSE, FALSE, o.called /\ o.delret)
           /\ last' = [op |-> "delete_person", key |-> x, ret |-> o.ret,
                       stage |-> o.stage, called |-> o.called, delret |-> o.delret,
                       escaped |-> o.escaped]
           /\ UNCHANGED << fpErr, running >>

\* The number of Person queries that answer before the database raises;
\* NoDbFault = the database never raises.
NoDbFault == 3 * DefaultLimit + 1
Budgets == { 0, 1, 2, NoDbFault }

FindPersonByFace ==
    /\ Idle
    /\ \E f \in Faces, t \in FindThresholds, fault \in { "none", "save" }, b \in Budgets :
         /\ (fault = "save" \/ ~f.face) => (t = DefaultThreshold /\ b = NoDbFault)
         /\ fault = "save" => ~f.face
         /\ \E o \in find_person_by_face(coll, db, f.face, f.v, t, fault, b, fpErr) :
              /\ last' = [op |-> "find", face |-> f.face, probe |-> f.v,
                          threshold |-> t, res |-> o]
              /\ UNCHANGED << coll, db, fpErr, hist, running >>

NextService ==
    \/ CreatePerson
    \/ DeletePerson
    \/ FindPersonByFace
    \/ Return

SpecService == Init /\ [][NextService]_vars

\* ------------------------------------------ identification over stored data
\* Both stores outlive the process, and find_person_by_face has to cope with
\* what earlier versions left in them: index records keyed by a Person's
\* vector_id rather than its id, or naming the Person only in the metadata,
\* and records with no Person at all.  InitResolve draws such stores.
NextKey(k) == (k % NumKeys) + 1

Slots(k) == { << >> } \cup
            { << v, m >> : v \in FaceVecs, m \in { NoPid, k, NextKey(k) } }

CollOf(f) ==
    { [id |-> k, emb |-> f[k][1], meta |-> f[k][2]] : k \in { j \in Keys : f[j] # << >> } }

\* g[k] = 0: no Person with id k; otherwise its vector_id.
DbOf(g) == { [id |-> k, vector_id |-> g[k]] : k \in { j \in Keys : g[j] # 0 } }

InitResolve ==
    /\ \E f \in [Keys -> UNION { Slots(k) : k \in Keys }] :
         /\ \A k \in Keys : f[k] \in Slots(k)
         /\ coll = CollOf(f)
    /\ \E g \in [Keys -> 0..NumKeys] :
         /\ \A k \in Keys : g[k] \in { 0, k, NextKey(k) }
         /\ \A j, k \in Keys : (j # k /\ g[j] # 0) => g[j] # g[k]
         /\ db = DbOf(g)
    /\ fpErr \in FpErrs
    /\ hist = [k \in Keys |-> "none"]
    /\ last = [op |-> "idle"]
    /\ running = << >>

NextResolve ==
    \/ FindPersonByFace
    \/ Return

SpecResolve == InitResolve /\ [][NextResolve]_vars

\* ------------------------------------------- identification among orphans
\* The index after enrollments that failed past add_embedding: beside the
\* record of one enrolled Person it holds up to MaxOrphans records whose key
\* no Person carries, each with the metadata create_person gave it.
MaxOrphans == 6

OrphanIds(n) == { NumKeys + i : i \in 1..n }

InitDrift ==
    /\ \E n \in 0..MaxOrphans, u \in FaceVecs, w \in FaceVecs :
         coll = { [id |-> x, emb |-> u, meta |-> MetaOf(x)] : x \in OrphanIds(n) }
                \cup { [id |-> 1, emb |-> w, meta |-> MetaOf(1)] }
    /\ db = { [id |-> 1, vector_id |-> 1] }
    /\ fpErr \in FpErrs
    /\ hist = [k \in Keys |-> "none"]
    /\ last = [op |-> "idle"]
    /\ running = << >>

NextDrift ==
    \/ FindPersonByFace
    \/ Return

SpecDrift == InitDrift /\ [][NextDrift]_vars

\* ------------------------------------------------------ the /identify route
\* Config.SIMILARITY_THRESHOLD, in hundredths.
ConfigThreshold == 60

\* float('nan'): the value every comparison with which is false.  As a
\* threshold it stands above every similarity, so that the filter's
\* `similarity >= threshold` is false as it is in Python.
NaN == 1000

\* The `threshold` field of the form: absent, or the text sent.
NoField == "<absent>"
ThresholdFields == { NoField, "", "0", "0.7", "1", "-0.1", "1.5", "abc", "nan" }

\* float(text), in hundredths: [raised |-> TRUE] is ValueError.
Float(text) ==
    CASE text = "0"    -> [raised |-> FALSE, value |-> 0]
      [] text = "0.7"  -> [raised |-> FALSE, value |-> 70]
      [] text = "1"    -> [raised |-> FALSE, value |-> 100]
      [] text = "-0.1" -> [raised |-> FALSE, value |-> -10]
      [] text = "1.5"  -> [raised |-> FALSE, value |-> 150]
      [] text = "nan"  -> [raised |-> FALSE, value |-> NaN]
      [] OTHER         -> [raised |-> TRUE, value |-> 0]

\* x < y and x > y on floats.
FloatLess(x, y) == x # NaN /\ y # NaN /\ x < y
FloatGreater(x, y) == x # NaN /\ y # NaN /\ x > y

\* identify_person: the set of [status, called, threshold, res] outcomes.
\* `photo` is whether the request carries a photo with a file name, field
\* the threshold field, readFault whether reading the matched person's photo
\* raises; called is whether find_person_by_face was called, and threshold
\* what it was called with.
identify_person(c, d, photo, field, face, v, readFault, e) ==
    LET Rejected == { [status |-> 400, called |-> FALSE, threshold |-> 0, found |-> FALSE] }
        Call(t) == { [status |-> IF o.found /\ readFault THEN 500 ELSE 200,
                      called |-> TRUE, threshold |-> t, found |-> o.found]
                     : o \in find_person_by_face(c, d, face, v, t, "none", NoDbFault, e) }
    IN  IF ~photo THEN Rejected
        ELSE IF field \in { NoField, "" } THEN Call(ConfigThreshold)
        ELSE IF Float(field).raised THEN Rejected
        ELSE IF FloatLess(Float(field).value, 0) \/ FloatGreater(Float(field).value, 100)
        THEN Rejected
        ELSE Call(Float(field).value)

IdentifyPerson ==
    /\ Idle
    /\ \E photo \in BOOLEAN, field \in ThresholdFields, f \in Faces, readFault \in BOOLEAN :
         /\ ~photo => (field = NoField /\ ~f.face /\ ~readFault)
         /\ \E o \in identify_person(coll, db, photo, field, f.face, f.v, readFault, fpErr) :
              /\ last' = [op |-> "identify", photo |-> photo, field |-> field,
                          status |-> o.status, called |-> o.called,
                          threshold |-> o.threshold, found |-> o.found]
              /\ UNCHANGED << coll, db, fpErr, hist, running >>

NextIdentify ==
    \/ CreatePerson
    \/ IdentifyPerson
    \/ Return

SpecIdentify == Init /\ [][NextIdentify]_vars

\* ------------------------------------------------------ concurrent calls
\* Two callers (threads of the server) call add_embedding, delete_embedding
\* or update_embedding on the same key at once.  The methods take no lock;
\* each call of theirs on the collection is one step, and the steps of the
\* two calls interleave freely.  The engine may raise in any step; it is
\* taken to store what it is given.
Callers == { 1, 2 }

\* The first collection call of each method.
FirstStep(op) == IF op = "add" THEN "add" ELSE "delete"

InitRace ==
    /\ db = {}
    /\ fpErr \in FpErrs
    /\ hist = [k \in Keys |-> "none"]
    /\ last = [op |-> "idle"]
    /\ \E k \in Keys :
         /\ coll \in { {} } \cup { { [id |-> k, emb |-> v, meta |-> NoPid] } : v \in FaceVecs }
         /\ running \in [Callers -> { [op |-> o, key |-> k, emb |-> v, pc |-> FirstStep(o),
                                       ret |-> "none", stored |-> FALSE]
                                      : o \in { "add", "delete", "update" }, v \in FaceVecs }]

\* self.collection.delete of a running delete_embedding or update_embedding
\* (which ignores what its delete_embedding returns).
RaceDelete(c) ==
    /\ running[c].pc = "delete"
    /\ \E d \in CollectionDelete(coll, running[c].key) :
         /\ coll' = d.coll
         /\ running' = [running EXCEPT ![c] =
                IF @.op = "delete"
                THEN [@ EXCEPT !.pc = "done", !.ret = IF d.raised THEN "false" ELSE "true"]
                ELSE [@ EXCEPT !.pc = "add"]]
    /\ UNCHANGED << db, fpErr, hist, last >>

\* self.collection.add of a running add_embedding; caller c passes the
\* metadata c.
RaceAdd(c) ==
    /\ running[c].pc = "add"
    /\ \E a \in { x \in CollectionAdd(coll, running[c].key, running[c].emb, c) :
                     \A r \in x.coll : r.emb # NullEmb } :
         /\ coll' = a.coll
         /\ running' = [running EXCEPT ![c] =
                IF a.raised
                THEN [@ EXCEPT !.pc = "done", !.ret = "false"]
                ELSE [@ EXCEPT !.pc = "get", !.stored = (a.coll # coll)]]
    /\ UNCHANGED << db, fpErr, hist, last >>

\* self.collection.get of a running add_embedding and the check behind it.
RaceGet(c) ==
    /\ running[c].pc = "get"
    /\ \E g \in CollectionGet(coll, running[c].key) :
         running' = [running EXCEPT ![c] = [@ EXCEPT !.pc = "done", !.ret = ReadBack(g)]]
    /\ UNCHANGED << coll, db, fpErr, hist, last >>

NextRace ==
    \/ \E c \in Callers : RaceDelete(c)
    \/ \E c \in Callers : RaceAdd(c)
    \/ \E c \in Callers : RaceGet(c)

SpecRace == InitRace /\ [][NextRace]_vars

\* ================================================================ claims
RecordsOf(c, k) == { r \in c : r.id = k }

MatchIds(ms) == { ms[i].id : i \in DOMAIN ms }

\* C1 (as stated): once add_embedding(k, v1, m1) has succeeded, a second
\* add_embedding(k, v2, m2) returns False and the record stored for k is
\* unchanged.
C1_DuplicateAddFails ==
    [][ (last'.op = "add" /\ last'.key \in Ids(coll) /\ hist[last'.key] = "acked")
          => ( /\ last'.ret = FALSE
               /\ RecordsOf(coll', last'.key) = RecordsOf(coll, last'.key) ) ]_vars

C6_DeletionComplete ==
    last.op = "search" => \A k \in MatchIds(last.ret) : hist[k] # "deleted"

\* A search returns an entry while another key has been deleted.
C6_Witness ==
    /\ last.op = "search"
    /\ last.ret # << >>
    /\ \E k \in Keys : hist[k] = "deleted"

\* C7 (as stated): a delete_embedding of an absent key leaves the collection
\* unchanged, and the returned value tells whether a record existed: True is
\* returned only for a key that was present.
C7_DeleteInformative ==
    [][ last'.op = "delete"
          => ( /\ last'.key \notin Ids(coll) => coll' = coll
               /\ last'.ret => last'.key \in Ids(coll) ) ]_vars

AtLeastAsClose(c, r, p) ==
    { q \in c : q.emb # NullEmb /\ CosSim(q.emb, p) >= CosSim(r.emb, p) }

PersonKeys(d) == { p.id : p \in d } \cup { p.vector_id : p \in d }

\* C3 (as stated): when create_person fails at the database commit, after
\* the embedding went into the index, the entry it inserted is deleted
\* again: the index holds nothing under the generated id.
C3_CommitFailureCompensated ==
    (last.op = "create" /\ last.stage = "commit") => last.key \notin Ids(coll)

\* C4 (as stated): when delete_embedding returns False inside delete_person,
\* the Person row is not deleted and delete_person does not return True.
C4_DeleteAbortsOnIndexFailure ==
    [][ (last'.op = "delete_person" /\ last'.called /\ ~last'.delret)
          => (db' = db /\ ~last'.ret) ]_vars

\* C5 (as stated): between calls of create_person and delete_person, every
\* key of the index is the id or the vector_id of a Person row.  (Read in
\* the claim's favour: only the entries whose insertion add_embedding
\* acknowledged are counted.)
C5_IndexKeysBacked ==
    Idle => \A k \in Ids(coll) : hist[k] = "acked" => k \in PersonKeys(db)

\* ------------------------------------------- claims on find_person_by_face
\* The message of a result, "" for a found one.
MessageOf(res) == IF res.found THEN "" ELSE res.message

\* Candidate m resolves to a Person through one of the three lookups.
Resolves(m, d) ==
    \/ ById(d, m.id) # {}
    \/ ByVectorId(d, m.id) # {}
    \/ (m.metadata # NoPid /\ ById(d, m.metadata) # {})

\* The ids of the Persons the lookups give for candidate m, in the order
\* id, vector_id, metadata person_id: the first non-empty answer.
PersonOf(m, d) ==
    IF ById(d, m.id) # {} THEN { p.id : p \in ById(d, m.id) }
    ELSE IF ByVectorId(d, m.id) # {} THEN { p.id : p \in ByVectorId(d, m.id) }
    ELSE { p.id : p \in ById(d, m.metadata) }

\* A find that got candidates from the index and met no database error.
Resolved ==
    /\ last.op = "find"
    /\ last.res.matches # << >>
    /\ MessageOf(last.res) # MsgDbError

\* C9: the candidates are in descending similarity; the result is found
\* exactly when some candidate resolves, and then it is the Person of the
\* first candidate that resolves (by id, else by vector_id, else by the
\* metadata person_id), with that candidate's similarity.
C9_FirstResolvedInRankOrder ==
    Resolved =>
      LET ms == last.res.matches
          ok == { i \in DOMAIN ms : Resolves(ms[i], db) }
      IN  /\ \A i, j \in DOMAIN ms : i < j => ms[i].similarity >= ms[j].similarity
          /\ last.res.found = (ok # {})
          /\ ok # {} =>
               LET first == CHOOSE i \in ok : \A j \in ok : i <= j
               IN  /\ last.res.person \in PersonOf(ms[first], db)
                   /\ last.res.similarity = ms[first].similarity

\* The best candidate carries a metadata person_id and fails all three
\* lookups; the second, less similar one resolves and is the one returned.
C9_Witness ==
    /\ Resolved
    /\ Len(last.res.matches) = 2
    /\ last.res.matches[1].metadata # NoPid
    /\ ~Resolves(last.res.matches[1], db)
    /\ last.res.matches[1].similarity > last.res.matches[2].similarity
    /\ last.res.found
    /\ last.res.person \in PersonOf(last.res.matches[2], db)
    /\ last.res.similarity = last.res.matches[2].similarity

\* C10: when there are candidates and none resolves, the result is
\* found = false and, the database answering, carries the "not in database"
\* message and the drift warning; a find with no candidate carries the
\* "no match" message and no drift warning.
C10_DriftDistinguishable ==
    (last.op = "find" /\ last.face /\ MessageOf(last.res) # MsgInternal) =>
      LET ms == last.res.matches
      IN  /\ (ms # << >> /\ \A i \in DOMAIN ms : ~Resolves(ms[i], db)) =>
                /\ ~last.res.found
                /\ last.res.message \in { MsgNotInDb, MsgDbError }
                /\ last.res.message = MsgNotInDb => LogDrift \in last.res.log
          /\ ms = << >> =>
                /\ ~last.res.found
                /\ last.res.message = MsgNoMatch
                /\ LogDrift \notin last.res.log

\* Two candidates, both in the index and neither with a Person, reported as
\* drift.
C10_Witness ==
    /\ last.op = "find"
    /\ Len(last.res.matches) = 2
    /\ \A i \in DOMAIN last.res.matches :
         /\ last.res.matches[i].id \in Ids(coll)
         /\ ~Resolves(last.res.matches[i], db)
    /\ ~last.res.found
    /\ last.res.message = MsgNotInDb

\* ------------------------------------- claims on the VectorStore, continued
\* C11 (as stated): update_embedding(k, v, m) that returns True leaves
\* exactly one record for k, holding v; when its delete succeeded and its
\* insert failed, k is absent from the collection and False is returned.
C11_UpdateReplaces ==
    [][ last'.op = "update"
          => ( /\ last'.ret =>
                    RecordsOf(coll', last'.key) =
                        { [id |-> last'.key, emb |-> last'.emb, meta |-> MetaOf(last'.key)] }
               /\ (last'.deleted /\ ~last'.ret) => last'.key \notin Ids(coll') ) ]_vars

\* C12 (as stated): an add_embedding that returns False for a key the
\* collection did not hold leaves no record for that key.
C12_NoHalfAppliedInsert ==
    [][ (last'.op = "add" /\ ~last'.existed /\ ~last'.ret)
          => last'.key \notin Ids(coll') ]_vars

\* C13: add_embedding (called directly or by update_embedding) returns True
\* only if the collection then holds a record for the key and the embedding
\* of every record it holds for the key is not null.
C13_SuccessMeansStoredNonNull ==
    (last.op \in { "add", "update" } /\ last.ret) =>
        /\ RecordsOf(coll, last.key) # {}
        /\ \A r \in RecordsOf(coll, last.key) : r.emb # NullEmb

\* An add_embedding on a new key has returned True while another key holds a
\* record whose embedding is null (its add_embedding returned False).
C13_Witness ==
    /\ last.op = "add"
    /\ ~last.existed
    /\ last.ret
    /\ \E r \in coll : r.id # last.key /\ r.emb = NullEmb /\ hist[r.id] = "none"

\* ----------------------------------- claims on PersonService, continued
\* C14 (as stated): delete_person(x) returns True exactly when a Person with
\* id x existed and has been removed; after it returned True the index does
\* not hold that Person's vector_id; for an x with no Person it returns
\* False and changes neither store.
C14_DeleteContract ==
    [][ last'.op = "delete_person"
          => ( /\ last'.ret = (ById(db, last'.key) # {} /\ ById(db', last'.key) = {})
               /\ last'.ret => \A p \in ById(db, last'.key) : p.vector_id \notin Ids(coll')
               /\ ById(db, last'.key) = {} =>
                    (~last'.ret /\ coll' = coll /\ db' = db) ) ]_vars

\* ------------------------------------------------ claims on search_similar
\* The similarity search_similar computes for an engine row.
SimilarityOf(row) == 100 - row.distance

\* C15: the matches of a search_similar that did not raise are exactly the
\* rows the engine answered (its at most `limit` nearest records) whose
\* similarity, 1 - distance, is >= threshold: every match is such a row with
\* that similarity, and no such row is missing.
C15_ThresholdFilter ==
    (last.op = "search" /\ ~last.raised) =>
        /\ Len(last.rows) <= last.limit
        /\ \A j \in DOMAIN last.rows :
             \E r \in coll : /\ r.id = last.rows[j].id
                             /\ last.rows[j].distance = Distance(r.emb, last.probe, fpErr)
        /\ \A i \in DOMAIN last.ret :
             /\ last.ret[i].similarity >= last.threshold
             /\ \E j \in DOMAIN last.rows :
                  /\ last.rows[j].id = last.ret[i].id
                  /\ last.ret[i].similarity = SimilarityOf(last.rows[j])
        /\ \A j \in DOMAIN last.rows :
             SimilarityOf(last.rows[j]) >= last.threshold
                 => last.rows[j].id \in MatchIds(last.ret)

\* The engine answered two rows; one is at the threshold exactly and is
\* kept, the other is below it and is dropped.
C15_Witness ==
    /\ last.op = "search"
    /\ ~last.raised
    /\ Len(last.rows) = 2
    /\ Len(last.ret) = 1
    /\ last.ret[1].similarity = last.threshold
    /\ \E j \in DOMAIN last.rows : SimilarityOf(last.rows[j]) < last.threshold

\* What search_similar returns at threshold t2 when the engine gives the
\* answer it gave to the last search (same collection, probe and limit).
SameSearchAt(t2) ==
    { o.ret : o \in { x \in search_similar(coll, last.probe, t2, last.limit, fpErr) :
                        ~x.raised /\ x.rows = last.rows } }

\* C16: every match returned at threshold T is returned, with the same
\* similarity, at every lower threshold T2, for the same collection, probe
\* and limit.
C16_ThresholdMonotone ==
    (last.op = "search" /\ ~last.raised) =>
        \A t2 \in Thresholds :
            t2 < last.threshold =>
                \A ret2 \in SameSearchAt(t2) :
                    \A i \in DOMAIN last.ret :
                        \E j \in DOMAIN ret2 :
                            /\ ret2[j].id = last.ret[i].id
                            /\ ret2[j].similarity = last.ret[i].similarity

\* A search at the default threshold returns one match, and the same search
\* at threshold 0 returns that match and one more.
C16_Witness ==
    /\ last.op = "search"
    /\ ~last.raised
    /\ last.threshold = DefaultThreshold
    /\ Len(last.ret) = 1
    /\ \E ret2 \in SameSearchAt(0) :
         /\ Len(ret2) = 2
         /\ last.ret[1].id \in MatchIds(ret2)

\* C17: search_similar returns at most `limit` matches, in descending order
\* of similarity.
C17_RankedWithinLimit ==
    last.op = "search" =>
        /\ Len(last.ret) <= last.limit
        /\ \A i, j \in DOMAIN last.ret :
             i < j => last.ret[i].similarity >= last.ret[j].similarity

\* Two matches of different similarity are returned, the more similar first.
C17_Witness ==
    /\ last.op = "search"
    /\ Len(last.ret) = 2
    /\ last.ret[1].similarity > last.ret[2].similarity

\* C18 (as stated): once add_embedding(k, v, m) has returned True for a
\* unit vector v, search_similar with probe v returns k with similarity 1,
\* within the rounding tolerance, for every threshold in [0, 1].  (Read in
\* the claim's favour: every record held was stored by an add_embedding that
\* returned True, the search does not raise, the threshold is at most the
\* similarity the engine computes for v against itself, and the default
\* limit exceeds the number of records.)
C18_RoundTrip ==
    ( /\ last.op = "add"
      /\ last.ret
      /\ Norm(last.emb) # 0
      /\ \A r \in coll : hist[r.id] = "acked" ) =>
        \A t \in Thresholds :
            t <= 100 - fpErr =>
                \A o \in search_similar(coll, last.emb, t, DefaultLimit, fpErr) :
                    ~o.raised =>
                        \E i \in DOMAIN o.ret :
                            /\ o.ret[i].id = last.key
                            /\ o.ret[i].similarity >= 100 - fpErr

\* What search_similar returns on an empty collection when the engine
\* answers: the normal "no match" result.
NoMatchResults(p, threshold, limit) ==
    { o.ret : o \in { x \in search_similar({}, p, threshold, limit, fpErr) : ~x.raised } }

\* C19 (as stated): when the engine raises during the query, what
\* search_similar returns differs from what it returns on an empty
\* collection.
C19_QueryFailureSurfaced ==
    (last.op = "search" /\ last.raised) =>
        last.ret \notin NoMatchResults(last.probe, last.threshold, last.limit)

\* C20 (as stated): add_embedding with an embedding that is empty, of the
\* wrong dimension or not finite returns False and leaves the collection as
\* it was.  (Read in the claim's favour: the half-applied inserts, calls that
\* return False after the engine stored the record, are set aside.)
C20_InvalidVectorRejected ==
    [][ ( /\ last'.op = "add"
          /\ last'.emb \in InvalidVecs
          /\ ~last'.ret => coll' = coll )
          => (~last'.ret /\ coll' = coll) ]_vars

\* ------------------------------------- claims on the service's failure paths
\* C21: whatever fails (the photo or a fingerprint file, the extractor, the
\* index, the database), find_person_by_face returns a dict with a `found`
\* flag, and a message when it is false, create_person returns a Person or
\* None and delete_person a bool; no exception leaves any of the three.
C21_StructuredResults ==
    /\ last.op = "find" =>
         /\ ~last.res.escaped
         /\ "found" \in DOMAIN last.res
         /\ last.res.found \in BOOLEAN
         /\ ~last.res.found => "message" \in DOMAIN last.res
    /\ last.op \in { "create", "delete_person" } =>
         /\ ~last.escaped
         /\ last.ret \in BOOLEAN

\* A find whose temporary file could not be written has answered with the
\* "internal error" dict.
C21_Witness ==
    /\ last.op = "find"
    /\ ~last.res.found
    /\ last.res.message = MsgInternal
    /\ ~last.res.escaped

C23_EmptyIndexIsNoMatch ==
    (last.op = "find" /\ last.face /\ coll = {}) =>
        /\ \A o \in search_similar(coll, last.probe, last.threshold, DefaultLimit, fpErr) :
             /\ o.ret = << >>
             /\ ~o.raised => o.log = { LogNoResult }
        /\ ~last.res.found
        /\ last.res.message = MsgNoMatch
        /\ last.res.matches = << >>
        /\ ~last.res.escaped

\* A find with a detected face on the empty collection, the engine having
\* answered the query.
C23_Witness ==
    /\ last.op = "find"
    /\ last.face
    /\ coll = {}
    /\ LogNoResult \in last.res.log
    /\ last.res.message = MsgNoMatch

\* ------------------------------------------------ claims on the /identify route
\* The threshold field carries something that is not a number of [0, 1].
InvalidThresholdField(field) ==
    /\ field \notin { NoField, "" }
    /\ \/ Float(field).raised
       \/ Float(field).value \notin 0..100

\* C24 (as stated): the /identify route calls find_person_by_face only with
\* a threshold in [0, 1]; a threshold field below 0, above 1 or not a number
\* is answered with 400 and find_person_by_face is not called.
C24_ThresholdValidated ==
    last.op = "identify" =>
        /\ last.called => last.threshold \in 0..100
        /\ InvalidThresholdField(last.field) => (last.status = 400 /\ ~last.called)

\* ------------------------------- claims on the two stores after a failure
\* C26 (as stated): when delete_person returns False for an id whose Person
\* exists, neither store has changed: the Person row and its index record
\* are still there.
C26_FailedDeleteChangesNothing ==
    [][ (last'.op = "delete_person" /\ ~last'.ret /\ ById(db, last'.key) # {})
          => (db' = db /\ coll' = coll) ]_vars

\* C27 (as stated): when create_person returns None because no face was
\* detected or because add_embedding returned False, the Person table and
\* the index are as before the call.
C27_FailedCreateChangesNothing ==
    [][ (last'.op = "create" /\ last'.stage \in { "noface", "add" })
          => (db' = db /\ coll' = coll) ]_vars

\* C28: find_person_by_face changes neither the index nor the Person table,
\* and the temporary file it wrote does not exist when it returns, on every
\* path.
C28_FindIsReadOnly ==
    [][ last'.op = "find"
          => (coll' = coll /\ db' = db /\ ~last'.res.temp) ]_vars

\* A find has identified a Person; both stores hold what they held and the
\* temporary file is gone.
C28_Witness ==
    /\ last.op = "find"
    /\ last.res.found
    /\ ~last.res.temp
    /\ coll # {}
    /\ db # {}

\* C29 (as stated): when the index holds a record whose similarity to the
\* probe is >= threshold and whose key resolves to a Person,
\* find_person_by_face returns found = true, however many records with no
\* Person rank above it.  (Read in the claim's favour: neither the engine
\* nor the database raises, and every other record has no Person and is
\* strictly nearer to the probe, so that the ranking is the engine's only
\* possible one.)
C29_ResolvableMatchFound ==
    ( /\ last.op = "find"
      /\ last.face
      /\ MessageOf(last.res) \notin { MsgDbError, MsgInternal }
      /\ LogSearchError \notin last.res.log ) =>
        ( ( \E r \in coll :
              /\ r.emb # NullEmb
              /\ 100 - Distance(r.emb, last.probe, fpErr) >= last.threshold
              /\ Resolves([id |-> r.id, metadata |-> r.meta], db)
              /\ \A o \in coll \ {r} :
                    /\ ~Resolves([id |-> o.id, metadata |-> o.meta], db)
                    /\ Distance(o.emb, last.probe, fpErr)
                         < Distance(r.emb, last.probe, fpErr) )
          => last.res.found )

\* C30 (as stated): when create_person returns None after no face was
\* detected, after add_embedding failed or after the commit failed, none of
\* the files the call wrote (the photo, the fingerprint images) exists.
C30_FailedCreateLeavesNoFiles ==
    (last.op = "create" /\ ~last.ret /\ last.stage \in { "noface", "add", "commit" })
        => last.files = {}

====
